---- MODULE Spec2Model ----
(***************************************************************************)
(* ShambaScan: the scan submission flow of the Scanner component, the      *)
(* row-level-security policies of the scans table, the client-side read    *)
(* flows (Dashboard, DetectedDiseases, ScanHistory), the migrations that   *)
(* build the diseases table and its trigger, the validation of the model's *)
(* answer, and the DiseaseVideos and AgrovetMap components.                *)
(***************************************************************************)
EXTENDS Integers, Sequences, FiniteSets, TLC

\* JavaScript null / undefined, SQL NULL
NULL == "null"
\* undefined, for an optional number (progress?: number)
NoProgress == -1
\* null, for a DiseaseAnalysis, an uploaded image URL, a retry closure and
\* an object URL
NoAnalysis == [disease |-> NULL, run |-> 0]
NoUrl == [file |-> NULL, run |-> 0]
NoRetry == [file |-> NULL]
NoPreview == <<>>
\* no response of the model and of the video search before a run
NoResponse == [kind |-> "none"]

\* ---------------------------------------------------------------- bounds
\* number of processImage runs explored
MaxRuns == 2
\* number of rows the scans table may hold in the read-flow specifications
MaxRows == 3
\* number of fetches a read-flow component issues
MaxFetches == 2
\* largest count a count query of the Dashboard returns
MaxCount == 10
\* number of requests DiseaseVideos issues
MaxSelections == 3
\* number of nearby searches AgrovetMap issues
MaxSearches == 2

\* ------------------------------------------------------------ value sets
Users == {"u1", "u2"}
\* the accounts that sign in to the Scanner
ScannerUsers == {"u1"}
Files == {"f1", "f2"}
DiseaseNames == {"blight", "rust"}
VideoIds == {"v1", "v2"}

\* ------------------------------------------------------------- variables
VARIABLES
  \* AuthContext
  user,
  \* Scanner component state (useState)
  isAnalyzing, preview, result, error, currentFile, loadingSteps, videos,
  \* the toast shown last
  toast,
  \* the processImage call in flight: position, closure and locals
  pc, runFile, runUser, runStale, analysis, imageUrl, fetchedVideos,
  \* history of the runs: number of the run, step of the last failure,
  \* whether the run repeats a failed run of the same file, external calls
  runId, failed, retryOf, calls,
  \* hosted backend: the scans table, auth.uid() of the last request and
  \* what each user last read from the table
  scans, authUid, lastRead,
  \* Dashboard component
  stats, scanActivity, dPc, dRes, dLog,
  \* DetectedDiseases component
  diseases, ddLoading, ddError, ddPc, ddData,
  \* ScanHistory component
  hUser, hScans, hLoading, hPending, hLog, hFetches, hLast,
  \* the response the model gave to the last analysis request, and the
  \* response of the video search of the processImage call in flight
  modelResp, videoResp,
  \* the database schema: migrations applied, the diseases relation and its
  \* rows, the trigger on scans, and the INSERTs issued under the trigger
  applied, diseasesRel, diseasesRows, triggerInstalled, issued,
  \* DiseaseVideos component
  dvSel, dvVideos, dvLoading, dvError, dvPending, dvFetches, dvLast,
  \* AgrovetMap component
  isLoaded, mapRef, searchBoxRef, userLocation, center, agrovets, geoState,
  searches, searched, nSearches, lastSearch

authVars == <<user>>
scannerState == <<isAnalyzing, preview, result, error, currentFile,
                  loadingSteps, videos>>
runVars == <<pc, runFile, runUser, runStale, analysis, imageUrl,
             fetchedVideos, runId, failed, retryOf, calls>>
dbVars == <<scans, authUid, lastRead>>
dashVars == <<stats, scanActivity, dPc, dRes, dLog>>
ddVars == <<diseases, ddLoading, ddError, ddPc, ddData>>
histVars == <<hUser, hScans, hLoading, hPending, hLog, hFetches, hLast>>
respVars == <<modelResp, videoResp>>
trigVars == <<applied, diseasesRel, diseasesRows, triggerInstalled, issued>>
dvVars == <<dvSel, dvVideos, dvLoading, dvError, dvPending, dvFetches,
           dvLast>>
mapVars == <<isLoaded, mapRef, searchBoxRef, userLocation, center, agrovets,
             geoState, searches, searched, nSearches, lastSearch>>
extVars == <<trigVars, dvVars, mapVars>>
vars == <<user, isAnalyzing, preview, result, error, currentFile,
          loadingSteps, videos, toast, pc, runFile, runUser, runStale,
          analysis, imageUrl, fetchedVideos, runId, failed, retryOf, calls,
          scans, authUid, lastRead, stats, scanActivity, dPc, dRes, dLog,
          diseases, ddLoading, ddError, ddPc, ddData, hUser, hScans, hLoading,
          hPending, hLog, hFetches, hLast, modelResp, videoResp, applied,
          diseasesRel, diseasesRows, triggerInstalled, issued, dvSel,
          dvVideos, dvLoading, dvError, dvPending, dvFetches, dvLast,
          isLoaded, mapRef, searchBoxRef, userLocation, center, agrovets,
          geoState, searches, searched, nSearches, lastSearch>>

\* ======================================================== Scanner.tsx

\* ids of the four loading steps, in the order of the initial state
StepIds == <<"prepare", "analyze", "upload", "save">>
StepSet == {StepIds[i] : i \in 1..4}
StepIndex(id) == CHOOSE i \in 1..4 : StepIds[i] = id

\* the initial value of the loadingSteps state
InitialLoadingSteps ==
  [id \in StepSet |->
     [status |-> "waiting", progress |-> 0,
      errorDetails |-> NULL, retryFn |-> NoRetry]]

\* updateStepStatus: progress ?? step.progress, errorDetails and retryFn
\* are overwritten by the (possibly undefined) arguments
updateStepStatus(steps, stepId, status, progress, errorDetails, retryFn) ==
  [id \in StepSet |->
     IF id = stepId
       THEN [status |-> status,
             progress |-> IF progress = NoProgress THEN steps[id].progress
                                             ELSE progress,
             errorDetails |-> errorDetails,
             retryFn |-> retryFn]
       ELSE steps[id]]

resetLoadingSteps_keep(steps) == steps

resetLoadingSteps(steps) ==
  [id \in StepSet |->
     [status |-> "waiting", progress |-> 0,
      errorDetails |-> NULL, retryFn |-> NoRetry]]

\* loadingSteps.find(step => step.status === 'loading') of the render whose
\* processImage is called: the id of the first loading step, or undefined
FindLoading(steps) ==
  IF \E i \in 1..4 : steps[StepIds[i]].status = "loading"
    THEN StepIds[CHOOSE i \in 1..4 :
                   /\ steps[StepIds[i]].status = "loading"
                   /\ \A j \in 1..(i - 1) :
                        steps[StepIds[j]].status # "loading"]
    ELSE NULL

\* !user (processImage) and !user?.id (onDrop)
NoUser_never(u) == FALSE

NoUser(u) == u = NULL

\* the closure () => processImage(file) stored as a step's retryFn
RetryFn(file) == [file |-> file]

\* a video built by fetchVideos from one item of the search response
Video(v) == [url |-> <<"watch", v>>, title |-> <<"title", v>>,
             thumbnail |-> <<"thumb", v>>]

\* the outcomes of the search request of fetchVideos: a response with
\* items, a response that is not ok, a rejected fetch, and a body whose
\* items cannot be read
VideoResponses ==
  {[kind |-> "ok", items |-> <<"v1", "v2">>],
   [kind |-> "ok", items |-> <<>>],
   [kind |-> "not_ok", items |-> <<>>],
   [kind |-> "network_error", items |-> <<>>],
   [kind |-> "malformed", items |-> <<>>]}

\* fetchVideos: the list of videos, or what it throws
fetchVideos_rethrow(resp) ==
  IF resp.kind = "ok"
    THEN [threw |-> FALSE,
          videos |-> [i \in 1..Len(resp.items) |-> Video(resp.items[i])]]
    ELSE [threw |-> TRUE, videos |-> <<>>]

fetchVideos(resp) ==
  IF resp.kind = "ok"
    THEN [threw |-> FALSE,
          videos |-> [i \in 1..Len(resp.items) |-> Video(resp.items[i])]]
    ELSE [threw |-> FALSE, videos |-> <<>>]

\* ------------------------------------------- gemini.ts and ai-service.ts

\* a value of the parsed response: absent key, string (a sequence of
\* tokens), number, array of strings, null
Absent == [type |-> "undefined", str |-> <<>>, num |-> 0]
Str(tokens) == [type |-> "string", str |-> tokens, num |-> 0]
Num(n) == [type |-> "number", str |-> <<>>, num |-> n]
StrArray(tokens) == [type |-> "array", str |-> tokens, num |-> 0]
JsonNull == [type |-> "null", str |-> <<>>, num |-> 0]

requiredFields == <<"disease", "confidence", "description", "treatment",
                    "severity", "preventiveMeasures">>
allowedSeverities == {<<"Low">>, <<"Medium">>, <<"High">>}

\* a response of the model that parses to an object with the six fields
FullResponse(disease, confidence, severity) ==
  [kind |-> "json",
   disease |-> Str(disease),
   confidence |-> confidence,
   description |-> Str(<<"spots">>),
   treatment |-> Str(<<"1. ", "spray">>),
   severity |-> severity,
   preventiveMeasures |-> StrArray(<<"- ", "rotate">>)]

\* the responses of the model: valid ones, one per way of being invalid, a
\* text that is not JSON and a failed request
ModelResponses ==
  LET base == FullResponse(<<"blight">>, Num(85), Str(<<"High">>))
  IN {base,
      FullResponse(<<"**", "rust", "**">>, Num(0), Str(<<"Low">>)),
      FullResponse(<<"blight">>, Num(100), Str(<<"Medium">>)),
      FullResponse(<<"blight">>, Num(101), Str(<<"High">>)),
      FullResponse(<<"blight">>, Num(-1), Str(<<"High">>)),
      FullResponse(<<"blight">>, Str(<<"85">>), Str(<<"High">>)),
      FullResponse(<<"blight">>, JsonNull, Str(<<"High">>)),
      FullResponse(<<"blight">>, Num(85), Str(<<"Critical">>)),
      FullResponse(<<"blight">>, Num(85), Str(<<"low">>)),
      FullResponse(<<"blight">>, Num(85), JsonNull),
      [base EXCEPT !.preventiveMeasures = Str(<<"rotate">>)],
      [base EXCEPT !.kind = "not_json"],
      [base EXCEPT !.kind = "api_error"]}
  \cup {[base EXCEPT ![requiredFields[i]] = Absent] : i \in 1..6}

\* cleanMarkdown: bold and italic markers, list numbers and bullets are
\* removed, a newline becomes a space, runs of spaces collapse, the ends
\* are trimmed
RECURSIVE cleanMarkdown(_)
cleanMarkdown(text) ==
  IF text = <<>> THEN <<>>
  ELSE LET head == text[1]
           rest == cleanMarkdown(Tail(text))
       IN IF head \in {"**", "*", "1. ", "- "} THEN rest
          ELSE IF head \in {"\n", " "}
            THEN IF rest = <<>> \/ rest[1] = " " THEN rest
                 ELSE <<" ">> \o rest
          ELSE <<head>> \o rest

\* trim(): a leading space left by the pass above
Trim(text) == IF text # <<>> /\ text[1] = " " THEN Tail(text) ELSE text

Rejected(message) == [rejected |-> TRUE, message |-> message,
                      analysis |-> [disease |-> NULL, confidence |-> 0,
                                    severity |-> <<>>]]
Resolved(a) == [rejected |-> FALSE, message |-> NULL, analysis |-> a]

\* the word a one-word string consists of
Word(text) == IF Len(text) = 1 THEN text[1] ELSE NULL

\* analyzePlantImage on the response of the model: every throw of the inner
\* try, the parse error included, is rethrown by the outer catch
analyzePlantImage_noRange(resp) ==
  LET message == "Failed to analyze image. Please check your internet connection and try again."
  IN IF resp.kind # "json" THEN Rejected(message)
     ELSE IF \/ resp.treatment.type # "string"
             \/ resp.description.type # "string"
             \/ resp.disease.type # "string"
             \/ resp.preventiveMeasures.type # "array"
       THEN Rejected(message)
     ELSE IF \E i \in 1..6 : resp[requiredFields[i]].type = "undefined"
       THEN Rejected(message)
     ELSE IF resp.confidence.type # "number"
       THEN Rejected(message)
     ELSE IF \/ resp.severity.type # "string"
             \/ resp.severity.str \notin allowedSeverities
       THEN Rejected(message)
     ELSE Resolved([disease |-> Word(Trim(cleanMarkdown(resp.disease.str))),
                    confidence |-> resp.confidence.num,
                    severity |-> resp.severity.str])

analyzePlantImage(resp) ==
  LET message == "Failed to analyze image. Please check your internet connection and try again."
  IN IF resp.kind # "json" THEN Rejected(message)
     ELSE IF \/ resp.treatment.type # "string"
             \/ resp.description.type # "string"
             \/ resp.disease.type # "string"
             \/ resp.preventiveMeasures.type # "array"
       THEN Rejected(message)
     ELSE IF \E i \in 1..6 : resp[requiredFields[i]].type = "undefined"
       THEN Rejected(message)
     ELSE IF \/ resp.confidence.type # "number"
             \/ resp.confidence.num < 0
             \/ resp.confidence.num > 100
       THEN Rejected(message)
     ELSE IF \/ resp.severity.type # "string"
             \/ resp.severity.str \notin allowedSeverities
       THEN Rejected(message)
     ELSE Resolved([disease |-> Word(Trim(cleanMarkdown(resp.disease.str))),
                    confidence |-> resp.confidence.num,
                    severity |-> resp.severity.str])

\* AIModelService.analyzeImage: the result of analyzePlantImage passed
\* through, a rejection wrapped in a new Error
analyzeImage(resp) ==
  LET results == analyzePlantImage(resp)
  IN IF results.rejected
       THEN Rejected("PlantDiseaseNet analysis failed: Failed to analyze image. Please check your internet connection and try again.")
       ELSE results

\* the row insertScanData sends to the scans table
ScanRow_shifted(uid, url, a, vs) ==
  [user_id |-> uid,
   image_url |-> url,
   disease_name |-> a.disease,
   video_urls |-> [i \in 1..Len(vs) |-> vs[i].url],
   video_titles |-> [i \in 1..Len(vs) |-> vs[Len(vs) + 1 - i].title],
   video_thumbnails |-> [i \in 1..Len(vs) |-> vs[i].thumbnail]]

ScanRow(uid, url, a, vs) ==
  [user_id |-> uid,
   image_url |-> url,
   disease_name |-> a.disease,
   video_urls |-> [i \in 1..Len(vs) |-> vs[i].url],
   video_titles |-> [i \in 1..Len(vs) |-> vs[i].title],
   video_thumbnails |-> [i \in 1..Len(vs) |-> vs[i].thumbnail]]

CallsPlus(svc) == [calls EXCEPT ![svc] = @ + 1]

\* AuthContext.signIn / signOut: setUser
SignIn(u) ==
  /\ user = NULL
  /\ user' = u
  /\ UNCHANGED <<scannerState, toast, runVars, dbVars, dashVars, ddVars,
                 histVars,
                 respVars, extVars>>

SignOut ==
  /\ user # NULL
  /\ user' = NULL
  /\ UNCHANGED <<scannerState, toast, runVars, dbVars, dashVars, ddVars,
                 histVars,
                 respVars, extVars>>

\* onDrop(acceptedFiles)
OnDrop(acceptedFiles) ==
  IF NoUser(user)
    THEN /\ toast' = [kind |-> "error",
                      msg |-> "Please sign in to use the scanner"]
         /\ UNCHANGED <<authVars, scannerState, runVars, dbVars, dashVars,
                        ddVars, histVars,
                 respVars, extVars>>
    ELSE IF acceptedFiles = <<>>
      THEN UNCHANGED vars
      ELSE /\ currentFile' = acceptedFiles[1]
           /\ error' = NULL
           /\ result' = NoAnalysis
           /\ preview' = <<"blob", acceptedFiles[1]>>
           /\ loadingSteps' = resetLoadingSteps(loadingSteps)
           /\ UNCHANGED <<authVars, isAnalyzing, videos, toast, runVars,
                          dbVars, dashVars, ddVars, histVars,
                 respVars, extVars>>

\* processImage(file) up to its first await: the guard, the reset and the
\* start of step 1
ProcessImage(file) ==
  IF NoUser(user)
    THEN /\ toast' = [kind |-> "error",
                      msg |-> "Please log in to use this feature"]
         /\ UNCHANGED <<authVars, scannerState, runVars, dbVars, dashVars,
                        ddVars, histVars,
                 respVars, extVars>>
    ELSE /\ pc = "idle"
         /\ runId < MaxRuns
         /\ isAnalyzing' = TRUE
         /\ error' = NULL
         /\ loadingSteps' =
              updateStepStatus(resetLoadingSteps(loadingSteps),
                               "prepare", "loading", NoProgress, NULL,
                               NoRetry)
         /\ pc' = "prepare"
         /\ runFile' = file
         /\ runUser' = user
         /\ runStale' = FindLoading(loadingSteps)
         /\ analysis' = NoAnalysis
         /\ imageUrl' = NoUrl
         /\ fetchedVideos' = <<>>
         /\ runId' = runId + 1
         /\ retryOf' = (failed # NULL /\ runFile = file)
         /\ failed' = NULL
         /\ modelResp' = NoResponse
         /\ videoResp' = NoResponse
         /\ UNCHANGED <<authVars, preview, result, currentFile, videos,
                        toast, calls, dbVars, dashVars, ddVars, histVars,
                        extVars>>

\* the Analyze Image button: rendered when preview && !isAnalyzing && !result
AnalyzeButtonRendered ==
  /\ user # NULL
  /\ preview # NoPreview
  /\ ~isAnalyzing
  /\ result = NoAnalysis

ClickAnalyze ==
  /\ AnalyzeButtonRendered
  /\ currentFile # NULL
  /\ ProcessImage(currentFile)

\* processImage called while no user is signed in
ProcessImageSignedOut(file) ==
  /\ user = NULL
  /\ ProcessImage(file)

\* the catch and finally blocks of processImage
Catch(stepId, errorMessage) ==
  /\ error' = errorMessage
  /\ toast' = [kind |-> "error", msg |-> errorMessage]
  /\ loadingSteps' =
       IF runStale # NULL
         THEN updateStepStatus(loadingSteps, runStale, "error", 0,
                               errorMessage, RetryFn(runFile))
         ELSE loadingSteps
  /\ isAnalyzing' = FALSE
  /\ pc' = "idle"
  /\ failed' = stepId
  /\ videoResp' = NoResponse

\* step 1 ends: reader.onload, then step 2 starts
PrepareDone ==
  /\ pc = "prepare"
  /\ loadingSteps' =
       updateStepStatus(
         updateStepStatus(loadingSteps, "prepare", "completed", 100,
                          NULL, NoRetry),
         "analyze", "loading", NoProgress, NULL, NoRetry)
  /\ calls' = CallsPlus("provider")
  /\ pc' = "analyze"
  /\ UNCHANGED <<authVars, isAnalyzing, preview, result, error, currentFile,
                 videos, toast, runFile, runUser, runStale, analysis,
                 imageUrl, fetchedVideos, runId, failed, retryOf, dbVars,
                 dashVars, ddVars, histVars,
                 respVars, extVars>>

\* reader.onerror rejects with an event, which is not an Error
PrepareFail ==
  /\ pc = "prepare"
  /\ Catch("prepare", "Failed to process image")
  /\ UNCHANGED <<authVars, preview, result, currentFile, videos, runFile,
                 runUser, runStale, analysis, imageUrl, fetchedVideos,
                 runId, retryOf, calls, dbVars, dashVars, ddVars, histVars,
                 modelResp, extVars>>

\* step 2 ends: aiService.analyzeImage resolves, then step 3 starts
AnalyzeDone(resp) ==
  /\ pc = "analyze"
  /\ ~analyzeImage(resp).rejected
  /\ analysis' = [disease |-> analyzeImage(resp).analysis.disease,
                  run |-> runId]
  /\ modelResp' = resp
  /\ loadingSteps' =
       updateStepStatus(
         updateStepStatus(loadingSteps, "analyze", "completed", 100,
                          NULL, NoRetry),
         "upload", "loading", NoProgress, NULL, NoRetry)
  /\ calls' = CallsPlus("cdn")
  /\ pc' = "upload"
  /\ UNCHANGED <<authVars, isAnalyzing, preview, result, error, currentFile,
                 videos, toast, runFile, runUser, runStale, imageUrl,
                 fetchedVideos, runId, failed, retryOf, dbVars, dashVars,
                 ddVars, histVars, videoResp, extVars>>

\* step 2 ends: aiService.analyzeImage rejects
AnalyzeFail(resp) ==
  /\ pc = "analyze"
  /\ analyzeImage(resp).rejected
  /\ Catch("analyze", analyzeImage(resp).message)
  /\ modelResp' = resp
  /\ UNCHANGED <<authVars, preview, result, currentFile, videos, runFile,
                 runUser, runStale, analysis, imageUrl, fetchedVideos,
                 runId, retryOf, calls, dbVars, dashVars, ddVars, histVars,
                 extVars>>

\* xhr.upload.onprogress during step 3
UploadProgress(progress) ==
  /\ pc = "upload"
  /\ loadingSteps' = updateStepStatus(loadingSteps, "upload", "loading",
                                      progress, NULL, NoRetry)
  /\ UNCHANGED <<authVars, isAnalyzing, preview, result, error, currentFile,
                 videos, toast, runVars, dbVars, dashVars, ddVars, histVars,
                 respVars, extVars>>

\* step 3 ends: the upload resolves with secure_url, then fetchVideos starts
UploadDone ==
  /\ pc = "upload"
  /\ imageUrl' = [file |-> runFile, run |-> runId]
  /\ loadingSteps' = updateStepStatus(loadingSteps, "upload", "completed",
                                      100, NULL, NoRetry)
  /\ calls' = CallsPlus("videos")
  /\ pc' = "videos"
  /\ UNCHANGED <<authVars, isAnalyzing, preview, result, error, currentFile,
                 videos, toast, runFile, runUser, runStale, analysis,
                 fetchedVideos, runId, failed, retryOf, dbVars, dashVars,
                 ddVars, histVars,
                 respVars, extVars>>

UploadFail ==
  /\ pc = "upload"
  /\ Catch("upload", "Upload failed")
  /\ UNCHANGED <<authVars, preview, result, currentFile, videos, runFile,
                 runUser, runStale, analysis, imageUrl, fetchedVideos,
                 runId, retryOf, calls, dbVars, dashVars, ddVars, histVars,
                 modelResp, extVars>>

\* await fetchVideos(analysis.disease) returns, then step 4 starts; the
\* call is inside the try block, so a throw would reach the catch block
VideosDone(resp) ==
  /\ pc = "videos"
  /\ IF fetchVideos(resp).threw
       THEN /\ Catch("videos", "Failed to fetch videos")
            /\ UNCHANGED <<authVars, preview, result, currentFile, videos,
                           runFile, runUser, runStale, analysis, imageUrl,
                           fetchedVideos, runId, retryOf, calls, dbVars,
                           dashVars, ddVars, histVars, modelResp, extVars>>
       ELSE /\ fetchedVideos' = fetchVideos(resp).videos
            /\ videos' = fetchVideos(resp).videos
            /\ videoResp' = resp
            /\ loadingSteps' = updateStepStatus(loadingSteps, "save",
                                                "loading", NoProgress, NULL,
                                                NoRetry)
            /\ calls' = CallsPlus("db")
            /\ pc' = "save"
            /\ UNCHANGED <<authVars, isAnalyzing, preview, result, error,
                           currentFile, toast, runFile, runUser, runStale,
                           analysis, imageUrl, runId, failed, retryOf,
                           dbVars, dashVars, ddVars, histVars, modelResp,
                           extVars>>

\* step 4 ends: insertScanData returns without an error
SaveOk ==
  /\ pc = "save"
  /\ scans' = Append(scans,
                     ScanRow(runUser, imageUrl, analysis, fetchedVideos))
  /\ loadingSteps' = updateStepStatus(loadingSteps, "save", "completed",
                                      100, NULL, NoRetry)
  /\ result' = analysis
  /\ toast' = [kind |-> "success", msg |-> "Analysis complete!"]
  /\ isAnalyzing' = FALSE
  /\ pc' = "idle"
  /\ videoResp' = NoResponse
  /\ UNCHANGED <<authVars, preview, error, currentFile, videos, runFile,
                 runUser, runStale, analysis, imageUrl, fetchedVideos,
                 runId, failed, retryOf, calls, authUid, lastRead, dashVars,
                 ddVars, histVars, modelResp, extVars>>

\* step 4 ends: insertScanData returns { error: scanError }
SaveError ==
  /\ pc = "save"
  /\ loadingSteps' =
       updateStepStatus(loadingSteps, "save", "error", 0,
                        "Failed to save results to database. Click to retry.",
                        RetryFn(runFile))
  /\ result' = analysis
  /\ toast' = [kind |-> "success",
               msg |-> "Analysis complete! (Save to database failed)"]
  /\ isAnalyzing' = FALSE
  /\ pc' = "idle"
  /\ failed' = "save"
  /\ videoResp' = NoResponse
  /\ UNCHANGED <<authVars, preview, error, currentFile, videos, runFile,
                 runUser, runStale, analysis, imageUrl, fetchedVideos,
                 runId, retryOf, calls, dbVars, dashVars, ddVars, histVars,
                 modelResp, extVars>>

\* renderLoadingStep draws the retry button of a step: the progress panel is
\* rendered only while isAnalyzing, the button only for an error step with
\* errorDetails; its onClick is the step's retryFn
RetryRendered(stepId) ==
  /\ user # NULL
  /\ preview # NoPreview
  /\ isAnalyzing
  /\ loadingSteps[stepId].status = "error"
  /\ loadingSteps[stepId].errorDetails # NULL
  /\ loadingSteps[stepId].retryFn # NoRetry

\* ======================================================= initial state

AuthInit == user = NULL

ScannerInit ==
  /\ isAnalyzing = FALSE
  /\ preview = NoPreview
  /\ result = NoAnalysis
  /\ error = NULL
  /\ currentFile = NULL
  /\ loadingSteps = InitialLoadingSteps
  /\ videos = <<>>
  /\ toast = [kind |-> "none", msg |-> NULL]
  /\ pc = "idle"
  /\ runFile = NULL
  /\ runUser = NULL
  /\ runStale = NULL
  /\ analysis = NoAnalysis
  /\ imageUrl = NoUrl
  /\ fetchedVideos = <<>>
  /\ runId = 0
  /\ failed = NULL
  /\ retryOf = FALSE
  /\ calls = [svc \in {"provider", "cdn", "videos", "db"} |-> 0]

DbInit ==
  /\ scans = <<>>
  /\ authUid = NULL
  /\ lastRead = [u \in Users |-> [rows |-> <<>>, tableLen |-> 0]]

\* a number that is a fraction, in lowest terms
RECURSIVE GCD(_, _)
GCD(a, b) == IF b = 0 THEN a ELSE GCD(b, a % b)

Ratio(n, d) == [num |-> n \div GCD(n, d), den |-> d \div GCD(n, d)]

\* the initial value of the Dashboard stats state
InitialStats ==
  [totalScans |-> 0, successRate |-> Ratio(0, 1), activePlants |-> 0,
   detectedDiseases |-> 0]

DashInit ==
  /\ stats = InitialStats
  /\ scanActivity = <<>>
  /\ dPc = "unmounted"
  /\ dRes = <<>>
  /\ dLog = <<>>

DdInit ==
  /\ diseases = <<>>
  /\ ddLoading = TRUE
  /\ ddError = NULL
  /\ ddPc = "unmounted"
  /\ ddData = <<>>

HistInit ==
  /\ hUser = NULL
  /\ hScans = <<>>
  /\ hLoading = TRUE
  /\ hPending = {}
  /\ hLog = <<>>
  /\ hFetches = 0
  /\ hLast = [id |-> 0, user |-> NULL, ok |-> FALSE]

\* the selection of DiseaseVideos: the diseaseName prop and the filter and
\* sortBy states
InitialSelection == [diseaseName |-> "", filter |-> "all",
                     sortBy |-> "relevance"]

\* no response before a run; a database before any migration, where the
\* relation diseases does not exist; DiseaseVideos with its initial states;
\* AgrovetMap before it is mounted: userLocation is null, mapRef.current
\* and searchBoxRef.current are undefined, the center defaults to Nairobi
ExtInit ==
  /\ modelResp = NoResponse
  /\ videoResp = NoResponse
  /\ applied = <<>>
  /\ diseasesRel = [exists |-> FALSE, columns |-> {}, required |-> {},
                    rls |-> FALSE, policies |-> {}]
  /\ diseasesRows = <<>>
  /\ triggerInstalled = FALSE
  /\ issued = <<>>
  /\ dvSel = InitialSelection
  /\ dvVideos = <<>>
  /\ dvLoading = FALSE
  /\ dvError = NULL
  /\ dvPending = {}
  /\ dvFetches = 0
  /\ dvLast = [id |-> 0, sel |-> InitialSelection, ok |-> FALSE]
  /\ isLoaded = FALSE
  /\ mapRef = NULL
  /\ searchBoxRef = NULL
  /\ userLocation = NULL
  /\ center = "nairobi"
  /\ agrovets = <<>>
  /\ geoState = "unmounted"
  /\ searches = {}
  /\ searched = {}
  /\ nSearches = 0
  /\ lastSearch = [status |-> "none", hasResults |-> FALSE]

Init ==
  /\ AuthInit
  /\ ScannerInit
  /\ DbInit
  /\ DashInit
  /\ DdInit
  /\ HistInit
  /\ ExtInit

\* ============================================ the scans table and its RLS

\* created_at values: year, month and day of a timestamptz
Stamps == [y : {2024, 2025}, m : {1, 2}, d : {1, 2}]

\* new Date(created_at): the instant as a number
DateValue(s) == (s.y * 12 + s.m) * 31 + s.d

\* a row of the scans table as the read flows see it; id is the primary key
ReadRow(uid, name, stamp) ==
  [user_id |-> uid, disease_name |-> name, description |-> "text",
   created_at |-> stamp]

WithId(row, id) ==
  [id |-> id, user_id |-> row.user_id, disease_name |-> row.disease_name,
   description |-> row.description, created_at |-> row.created_at]

\* policy "Users can view their own scans": USING (auth.uid() = user_id)
ScansSelectPolicy_all(uid, row) == TRUE

ScansSelectPolicy(uid, row) == uid # NULL /\ uid = row.user_id

\* policy "Users can create their own scans":
\* WITH CHECK (auth.uid() = user_id)
ScansInsertPolicy(uid, row) == uid # NULL /\ uid = row.user_id

\* the rows of the table a SELECT of the session uid returns, in table order
RECURSIVE VisibleRows(_, _)
VisibleRows(uid, table) ==
  IF table = <<>> THEN <<>>
  ELSE LET rest == VisibleRows(uid, SubSeq(table, 1, Len(table) - 1))
           last == table[Len(table)]
       IN IF ScansSelectPolicy(uid, last) THEN Append(rest, last) ELSE rest

\* INSERT INTO scans by the session uid: a row that fails the check is
\* rejected and the table is left as it is
RlsInsert(uid, row) ==
  /\ Len(scans) < MaxRows
  /\ authUid' = uid
  /\ scans' = IF ScansInsertPolicy(uid, row)
                THEN Append(scans, WithId(row, Len(scans) + 1))
                ELSE scans
  /\ UNCHANGED <<authVars, scannerState, toast, runVars, lastRead, dashVars,
                 ddVars, histVars,
                 respVars, extVars>>

\* SELECT * FROM scans by the session uid
RlsSelect(uid) ==
  /\ authUid' = uid
  /\ uid \in Users
  /\ lastRead' = [lastRead EXCEPT ![uid] =
                    [rows |-> VisibleRows(uid, scans),
                     tableLen |-> Len(scans)]]
  /\ UNCHANGED <<authVars, scannerState, toast, runVars, scans, dashVars,
                 ddVars, histVars,
                 respVars, extVars>>

\* the rows the sessions try to insert
RlsRows == {ReadRow(u, n, st) : u \in Users, n \in {"blight", NULL},
                                st \in {[y |-> 2024, m |-> 1, d |-> 1]}}

NextRLS ==
  \/ \E uid \in Users \cup {NULL}, row \in RlsRows : RlsInsert(uid, row)
  \/ \E uid \in Users : RlsSelect(uid)

SpecRLS == Init /\ [][NextRLS]_vars

\* C5: under the policies of the scans table a user reads only rows whose
\* user_id is their own uid, reads all of those, and a row enters the
\* table only when its user_id is the uid of the session that inserts it.
C5_OwnRowsOnly ==
  [][/\ \A u \in Users :
          /\ \A i \in 1..Len(lastRead'[u].rows) :
               lastRead'[u].rows[i].user_id = u
          /\ lastRead'[u] # lastRead[u]
               => Len(lastRead'[u].rows) =
                    Cardinality({i \in 1..Len(scans) : scans[i].user_id = u})
     /\ Len(scans') > Len(scans)
          => scans'[Len(scans')].user_id = authUid']_vars

\* a user has read their rows from a table that also holds another user's
C5_Witness ==
  \E u \in Users :
    /\ lastRead[u].rows # <<>>
    /\ \E i \in 1..lastRead[u].tableLen : scans[i].user_id # u

\* the submission flow
Next ==
  \/ \E u \in ScannerUsers : SignIn(u)
  \/ SignOut
  \/ \E fs \in {<<>>} \cup {<<f>> : f \in Files} : OnDrop(fs)
  \/ ClickAnalyze
  \/ \E f \in Files : ProcessImageSignedOut(f)
  \/ PrepareDone
  \/ PrepareFail
  \/ \E resp \in ModelResponses : AnalyzeDone(resp)
  \/ \E resp \in ModelResponses : AnalyzeFail(resp)
  \/ \E p \in {50} : UploadProgress(p)
  \/ UploadDone
  \/ UploadFail
  \/ \E resp \in VideoResponses : VideosDone(resp)
  \/ SaveOk
  \/ SaveError

Spec == Init /\ [][Next]_vars

\* ------------------------------------------------ claims on the Scanner

LastRow == scans[Len(scans)]

\* C1: in every run the four steps start in the order prepare, analyze,
\* upload, save: a step enters 'loading' only when every earlier step is
\* 'completed', and a scan row is written only after the analysis and the
\* upload of the same run have succeeded.
C1_StepsInOrder ==
  [][/\ \A k \in 1..4 :
          (/\ loadingSteps'[StepIds[k]].status = "loading"
           /\ loadingSteps[StepIds[k]].status # "loading")
          => \A j \in 1..(k - 1) :
               loadingSteps'[StepIds[j]].status = "completed"
     /\ Len(scans') > Len(scans)
          => /\ analysis # NoAnalysis /\ analysis.run = runId
             /\ imageUrl # NoUrl /\ imageUrl.run = runId]_vars

\* C2: when a step of the flow fails, the user is shown an error toast and
\* the retry button of the failed step is rendered and can be activated.
C2_RetryOffered ==
  [][(pc # "idle" /\ pc' = "idle" /\ failed' # NULL)
       => /\ toast'.kind = "error"
          /\ (RetryRendered(failed))']_vars

\* C3: a retry re-runs the whole sequence for the same file from the
\* prepare step: a retryFn holds the file of the failed run, every start of
\* processImage resets the four steps and starts step 1 with no analysis
\* and no image URL, and the row a run saves is built from the analysis and
\* the uploaded URL that this run produced for its file.
C3_RetryRerunsAll ==
  [][/\ \A id \in StepSet :
          loadingSteps'[id].retryFn # NoRetry
            => loadingSteps'[id].retryFn = RetryFn(runFile')
     /\ runId' # runId
          => /\ pc' = "prepare"
             /\ loadingSteps' =
                  [InitialLoadingSteps EXCEPT !["prepare"].status = "loading"]
             /\ analysis' = NoAnalysis
             /\ imageUrl' = NoUrl
             /\ fetchedVideos' = <<>>
     /\ Len(scans') > Len(scans)
          => /\ analysis.run = runId
             /\ imageUrl = [file |-> runFile, run |-> runId]
             /\ scans'[Len(scans')].image_url = imageUrl
             /\ scans'[Len(scans')].disease_name = analysis.disease]_vars

\* a run that repeats a failed run of the same file has saved its row
C3_Witness ==
  /\ retryOf
  /\ pc = "idle"
  /\ failed = NULL
  /\ Len(scans) > 0
  /\ LastRow.image_url = [file |-> runFile, run |-> runId]

\* C4: while the user is null no run starts and no file is accepted, and
\* with no run in flight nothing changes the Scanner state, the position
\* of the flow, the external calls or the scans table.
C4_SignedOutNoScan ==
  [][user = NULL
       => /\ runId' = runId
          /\ currentFile' = currentFile
          /\ preview' = preview
          /\ pc = "idle"
               => UNCHANGED <<scannerState, pc, calls, scans>>]_vars

\* processImage was called for a dropped file after the user signed out
C4_Witness ==
  /\ user = NULL
  /\ currentFile # NULL
  /\ toast = [kind |-> "error", msg |-> "Please log in to use this feature"]

\* ======================================================= Dashboard.tsx

\* a count that is null
NoCount == -1

\* what an awaited query resolves to: { count, data }
CountResp(n) == [count |-> n, data |-> <<>>, hasData |-> FALSE]
DataResp(rows) == [count |-> NoCount, data |-> rows, hasData |-> TRUE]
\* a query that resolves with an error has a null count and null data
ErrorResp == [count |-> NoCount, data |-> <<>>, hasData |-> FALSE]

\* JavaScript truthiness of a count, and count || 0
Truthy(n) == n # NoCount /\ n # 0
OrZero(n) == IF Truthy(n) THEN n ELSE 0

\* totalScans ? ((successfulScans || 0) / totalScans) * 100 : 0
SuccessRate_noScale(totalScans, successfulScans) ==
  IF Truthy(totalScans)
    THEN Ratio(OrZero(successfulScans), totalScans)
    ELSE Ratio(0, 1)

SuccessRate(totalScans, successfulScans) ==
  IF Truthy(totalScans)
    THEN Ratio(OrZero(successfulScans) * 100, totalScans)
    ELSE Ratio(0, 1)

\* new Set(diseaseData?.map(scan => scan.disease_name) || []).size
UniqueDiseases(resp) ==
  Cardinality({resp.data[i] : i \in 1..Len(resp.data)})

\* the argument of setStats
setStats_noUsers(totalScans, successfulScans, uniqueDiseases, activeUsers) ==
  [totalScans |-> OrZero(totalScans),
   successRate |-> SuccessRate(totalScans, successfulScans),
   activePlants |-> 0,
   detectedDiseases |-> OrZero(uniqueDiseases)]

setStats(totalScans, successfulScans, uniqueDiseases, activeUsers) ==
  [totalScans |-> OrZero(totalScans),
   successRate |-> SuccessRate(totalScans, successfulScans),
   activePlants |-> OrZero(activeUsers),
   detectedDiseases |-> OrZero(uniqueDiseases)]

\* toLocaleString('default', { month: 'short' }) of a created_at
MonthNames == <<"Jan", "Feb", "Mar", "Apr", "May", "Jun",
                "Jul", "Aug", "Sep", "Oct", "Nov", "Dec">>
MonthShort(stamp) == MonthNames[stamp.m]

\* acc[month] = (acc[month] || 0) + 1, on the entries of acc in key order
AddScan_overwrite(acc, month) ==
  IF \E i \in 1..Len(acc) : acc[i].name = month
    THEN [i \in 1..Len(acc) |->
            IF acc[i].name = month
              THEN [name |-> month, scans |-> 1]
              ELSE acc[i]]
    ELSE Append(acc, [name |-> month, scans |-> 1])

AddScan(acc, month) ==
  IF \E i \in 1..Len(acc) : acc[i].name = month
    THEN [i \in 1..Len(acc) |->
            IF acc[i].name = month
              THEN [name |-> month, scans |-> acc[i].scans + 1]
              ELSE acc[i]]
    ELSE Append(acc, [name |-> month, scans |-> 1])

\* processActivityData: data.reduce(...) and Object.entries(...).map(...)
RECURSIVE processActivityData(_)
processActivityData(data) ==
  IF data = <<>> THEN <<>>
  ELSE AddScan(processActivityData(SubSeq(data, 1, Len(data) - 1)),
               MonthShort(data[Len(data)]))

\* ORDER BY created_at ascending of a list of created_at values
RECURSIVE InsertAsc(_, _)
InsertAsc(sorted, stamp) ==
  IF sorted = <<>> THEN <<stamp>>
  ELSE IF DateValue(sorted[Len(sorted)]) <= DateValue(stamp)
    THEN Append(sorted, stamp)
    ELSE Append(InsertAsc(SubSeq(sorted, 1, Len(sorted) - 1), stamp),
                sorted[Len(sorted)])

RECURSIVE OrderAsc(_)
OrderAsc(stampSeq) ==
  IF stampSeq = <<>> THEN <<>>
  ELSE InsertAsc(OrderAsc(SubSeq(stampSeq, 1, Len(stampSeq) - 1)),
                 stampSeq[Len(stampSeq)])

\* the rows of the table the session of the Dashboard user may read
DashRowsVisible == VisibleRows(user, scans)

\* .not('disease_name', 'is', null)
RECURSIVE NotNullDisease(_)
NotNullDisease(rows) ==
  IF rows = <<>> THEN <<>>
  ELSE LET rest == NotNullDisease(SubSeq(rows, 1, Len(rows) - 1))
           last == rows[Len(rows)]
       IN IF last.disease_name # NULL THEN Append(rest, last) ELSE rest

\* what the five queries of fetchDashboardData resolve to
TotalResp == CountResp(Len(DashRowsVisible))
SuccessfulResp == CountResp(Len(NotNullDisease(DashRowsVisible)))
DiseaseResp ==
  LET rows == NotNullDisease(DashRowsVisible)
  IN DataResp([i \in 1..Len(rows) |-> rows[i].disease_name])
ActivityResp ==
  OrderAsc([i \in 1..Len(DashRowsVisible) |->
              DashRowsVisible[i].created_at])

\* useEffect(..., []): the component mounts and fetchDashboardData starts
DashMount ==
  /\ dPc = "unmounted"
  /\ dPc' = "q1"
  /\ UNCHANGED <<authVars, scannerState, toast, runVars, dbVars, stats,
                 scanActivity, dRes, dLog, ddVars, histVars,
                 respVars, extVars>>

\* the count of all scans resolves
DashTotalDone(resp) ==
  /\ dPc = "q1"
  /\ dRes' = Append(dRes, resp)
  /\ dPc' = "q2"
  /\ UNCHANGED <<authVars, scannerState, toast, runVars, dbVars, stats,
                 scanActivity, dLog, ddVars, histVars,
                 respVars, extVars>>

\* the count of the scans with a disease name resolves
DashSuccessfulDone(resp) ==
  /\ dPc = "q2"
  /\ dRes' = Append(dRes, resp)
  /\ dPc' = "q3"
  /\ UNCHANGED <<authVars, scannerState, toast, runVars, dbVars, stats,
                 scanActivity, dLog, ddVars, histVars,
                 respVars, extVars>>

\* the disease names resolve
DashDiseasesDone(resp) ==
  /\ dPc = "q3"
  /\ dRes' = Append(dRes, resp)
  /\ dPc' = "q4"
  /\ UNCHANGED <<authVars, scannerState, toast, runVars, dbVars, stats,
                 scanActivity, dLog, ddVars, histVars,
                 respVars, extVars>>

\* the count of the profiles resolves; setStats
DashProfilesDone(resp) ==
  /\ dPc = "q4"
  /\ dRes' = Append(dRes, resp)
  /\ stats' = setStats(dRes[1].count, dRes[2].count,
                       UniqueDiseases(dRes[3]), resp.count)
  /\ dPc' = "q5"
  /\ UNCHANGED <<authVars, scannerState, toast, runVars, dbVars,
                 scanActivity, dLog, ddVars, histVars,
                 respVars, extVars>>

\* the created_at values resolve; setScanActivity
DashActivityDone(resp) ==
  /\ dPc = "q5"
  /\ dRes' = Append(dRes, resp)
  /\ scanActivity' = processActivityData(resp.data)
  /\ dPc' = "done"
  /\ UNCHANGED <<authVars, scannerState, toast, runVars, dbVars, stats,
                 dLog, ddVars, histVars,
                 respVars, extVars>>

\* an awaited query throws: the catch block of fetchDashboardData
DashThrow ==
  /\ dPc \in {"q1", "q2", "q3", "q4", "q5"}
  /\ dLog' = Append(dLog, "Error fetching dashboard data:")
  /\ dPc' = "done"
  /\ UNCHANGED <<authVars, scannerState, toast, runVars, dbVars, stats,
                 scanActivity, dRes, ddVars, histVars,
                 respVars, extVars>>

\* the rows written to the table while the Dashboard is open
DashRows ==
  {ReadRow("u1", "blight", [y |-> 2024, m |-> 1, d |-> 1]),
   ReadRow("u1", "rust", [y |-> 2025, m |-> 1, d |-> 1]),
   ReadRow("u1", "blight", [y |-> 2024, m |-> 2, d |-> 1]),
   ReadRow("u1", NULL, [y |-> 2024, m |-> 2, d |-> 1])}

InitDash ==
  /\ user = "u1"
  /\ ScannerInit
  /\ DbInit
  /\ DashInit
  /\ DdInit
  /\ HistInit
  /\ ExtInit

NextDash ==
  \/ \E row \in DashRows : RlsInsert(row.user_id, row)
  \/ DashMount
  \/ \E resp \in {TotalResp, ErrorResp} : DashTotalDone(resp)
  \/ \E resp \in {SuccessfulResp, ErrorResp} : DashSuccessfulDone(resp)
  \/ \E resp \in {DiseaseResp, ErrorResp} : DashDiseasesDone(resp)
  \/ \E resp \in {CountResp(0), CountResp(1), ErrorResp} :
       DashProfilesDone(resp)
  \/ \E resp \in {DataResp(ActivityResp), ErrorResp} : DashActivityDone(resp)
  \/ DashThrow

SpecDash == InitDash /\ [][NextDash]_vars

\* the success rate as a function of the two counts: fetchDashboardData
\* about to receive its fourth response, the first two being any counts
CountValues == {NoCount} \cup 0..MaxCount

InitRate ==
  /\ user = "u1"
  /\ ScannerInit
  /\ DbInit
  /\ stats = InitialStats
  /\ scanActivity = <<>>
  /\ dPc = "q4"
  /\ \E t \in CountValues, n \in CountValues :
       dRes = <<CountResp(t), CountResp(n), DataResp(<<>>)>>
  /\ dLog = <<>>
  /\ DdInit
  /\ HistInit
  /\ ExtInit

NextRate ==
  \E resp \in {CountResp(0), CountResp(1), ErrorResp} : DashProfilesDone(resp)

SpecRate == InitRate /\ [][NextRate]_vars

\* C6: the success rate is (scans with a disease name / total scans) x 100
\* when the total is greater than 0 and 0 when the total is 0 or null;
\* total 10 and successful 8 give 80; with 0 <= successful <= total the
\* rate lies in [0, 100].
C6_SuccessRate ==
  dPc = "q5" =>
    LET total == dRes[1].count
        successful == dRes[2].count
        rate == stats.successRate
    IN /\ rate.den > 0
       /\ total > 0 /\ successful >= 0
            => rate.num * total = successful * 100 * rate.den
       /\ total > 0 /\ successful = NoCount => rate.num = 0
       /\ total <= 0 => rate.num = 0
       /\ total = 10 /\ successful = 8 => rate = [num |-> 80, den |-> 1]
       /\ total >= 0 /\ 0 <= successful /\ successful <= total
            => 0 <= rate.num /\ rate.num <= 100 * rate.den

\* total 10 and successful 8 have given 80
C6_Witness ==
  /\ dPc = "q5"
  /\ stats.totalScans = 10
  /\ dRes[2].count = 8
  /\ stats.successRate = [num |-> 80, den |-> 1]

CountIn(data, month) ==
  Cardinality({i \in 1..Len(data) : MonthShort(data[i]) = month})

RECURSIVE SumScans(_)
SumScans(buckets) ==
  IF buckets = <<>> THEN 0
  ELSE SumScans(SubSeq(buckets, 1, Len(buckets) - 1))
       + buckets[Len(buckets)].scans

\* C10: processActivityData counts every scan in exactly one bucket, that
\* of its short month name: the counts add up to the number of scans and
\* there is one bucket per month name present.
C10_ActivityBuckets ==
  (dPc = "done" /\ Len(dRes) = 5) =>
    LET data == dRes[5].data
    IN /\ SumScans(scanActivity) = Len(data)
       /\ \A i, j \in 1..Len(scanActivity) :
            scanActivity[i].name = scanActivity[j].name => i = j
       /\ {scanActivity[i].name : i \in 1..Len(scanActivity)} =
            {MonthShort(data[i]) : i \in 1..Len(data)}
       /\ \A i \in 1..Len(scanActivity) :
            scanActivity[i].scans = CountIn(data, scanActivity[i].name)

\* scans of January 2024, January 2025 and February share two buckets
C10_Witness ==
  /\ dPc = "done"
  /\ Len(dRes) = 5
  /\ Len(dRes[5].data) = 3
  /\ Len(scanActivity) = 2
  /\ \E i, j \in 1..3 : /\ dRes[5].data[i].y # dRes[5].data[j].y
                        /\ dRes[5].data[i].m = dRes[5].data[j].m

\* ================================================ DetectedDiseases.tsx

\* new Date(a) < new Date(b)
Earlier_flipped(a, b) == DateValue(a) > DateValue(b)

Earlier(a, b) == DateValue(a) < DateValue(b)

\* the body of data.forEach: the Map as the list of its values in
\* insertion order
AddDisease(diseaseMap, scan) ==
  LET present == \E i \in 1..Len(diseaseMap) :
                   diseaseMap[i].disease_name = scan.disease_name
      withKey == IF present THEN diseaseMap
                 ELSE Append(diseaseMap,
                             [disease_name |-> scan.disease_name,
                              description |-> scan.description,
                              total_cases |-> 0,
                              first_detected |-> scan.created_at,
                              last_detected |-> scan.created_at])
  IN [i \in 1..Len(withKey) |->
        IF withKey[i].disease_name = scan.disease_name
          THEN [withKey[i] EXCEPT
                  !.total_cases = @ + 1,
                  !.first_detected =
                     IF Earlier(scan.created_at, @)
                       THEN scan.created_at ELSE @,
                  !.last_detected =
                     IF Earlier(@, scan.created_at)
                       THEN scan.created_at ELSE @]
          ELSE withKey[i]]

RECURSIVE DiseaseMap(_)
DiseaseMap(data) ==
  IF data = <<>> THEN <<>>
  ELSE AddDisease(DiseaseMap(SubSeq(data, 1, Len(data) - 1)),
                  data[Len(data)])

\* .sort((a, b) => b.total_cases - a.total_cases), a stable sort
RECURSIVE InsertByCases(_, _)
InsertByCases(sorted, rec) ==
  IF sorted = <<>> THEN <<rec>>
  ELSE IF rec.total_cases - sorted[Len(sorted)].total_cases <= 0
    THEN Append(sorted, rec)
    ELSE Append(InsertByCases(SubSeq(sorted, 1, Len(sorted) - 1), rec),
                sorted[Len(sorted)])

RECURSIVE SortByCases(_)
SortByCases(recs) ==
  IF recs = <<>> THEN <<>>
  ELSE InsertByCases(SortByCases(SubSeq(recs, 1, Len(recs) - 1)),
                     recs[Len(recs)])

\* select('disease_name, description, created_at').not('disease_name',
\* 'is', null)
DiseaseScans ==
  LET rows == NotNullDisease(VisibleRows(user, scans))
  IN [i \in 1..Len(rows) |->
        [disease_name |-> rows[i].disease_name,
         description |-> rows[i].description,
         created_at |-> rows[i].created_at]]

\* useEffect(..., []): the component mounts and fetchDiseases starts
DdMount ==
  /\ ddPc = "unmounted"
  /\ ddLoading' = TRUE
  /\ ddPc' = "fetching"
  /\ UNCHANGED <<authVars, scannerState, toast, runVars, dbVars, dashVars,
                 diseases, ddError, ddData, histVars,
                 respVars, extVars>>

\* the query resolves with data
DdFetchDone ==
  /\ ddPc = "fetching"
  /\ ddData' = DiseaseScans
  /\ diseases' = SortByCases(DiseaseMap(DiseaseScans))
  /\ ddLoading' = FALSE
  /\ ddPc' = "done"
  /\ UNCHANGED <<authVars, scannerState, toast, runVars, dbVars, dashVars,
                 ddError, histVars,
                 respVars, extVars>>

\* the query resolves with an error, which is thrown and caught
DdFetchError ==
  /\ ddPc = "fetching"
  /\ ddError' = "Failed to fetch diseases"
  /\ ddLoading' = FALSE
  /\ ddPc' = "done"
  /\ UNCHANGED <<authVars, scannerState, toast, runVars, dbVars, dashVars,
                 diseases, ddData, histVars,
                 respVars, extVars>>

\* the rows written to the table before the diseases are fetched
DdRows ==
  {ReadRow("u1", n, st) :
     n \in DiseaseNames \cup {NULL},
     st \in {[y |-> 2024, m |-> 1, d |-> 1], [y |-> 2024, m |-> 1, d |-> 2],
             [y |-> 2025, m |-> 1, d |-> 1]}}

NextDiseases ==
  \/ \E row \in DdRows : RlsInsert(row.user_id, row)
  \/ DdMount
  \/ DdFetchDone
  \/ DdFetchError

SpecDiseases == InitDash /\ [][NextDiseases]_vars

ScansNamed(data, name) == {i \in 1..Len(data) : data[i].disease_name = name}

RECURSIVE SumCases(_)
SumCases(recs) ==
  IF recs = <<>> THEN 0
  ELSE SumCases(SubSeq(recs, 1, Len(recs) - 1)) + recs[Len(recs)].total_cases

\* C8: the disease records hold one record per distinct disease name of the
\* fetched scans; total_cases is the number of scans with that name,
\* first_detected the earliest and last_detected the latest created_at
\* among them; the total_cases add up to the number of fetched scans and
\* the records are in descending order of total_cases.
C8_DiseaseRecords ==
  (ddPc = "done" /\ ddError = NULL) =>
    /\ \A i, j \in 1..Len(diseases) :
         diseases[i].disease_name = diseases[j].disease_name => i = j
    /\ {diseases[i].disease_name : i \in 1..Len(diseases)} =
         {ddData[i].disease_name : i \in 1..Len(ddData)}
    /\ \A i \in 1..Len(diseases) :
         LET of == ScansNamed(ddData, diseases[i].disease_name)
         IN /\ diseases[i].total_cases = Cardinality(of)
            /\ \E k \in of : ddData[k].created_at = diseases[i].first_detected
            /\ \E k \in of : ddData[k].created_at = diseases[i].last_detected
            /\ \A k \in of :
                 /\ DateValue(diseases[i].first_detected)
                      <= DateValue(ddData[k].created_at)
                 /\ DateValue(ddData[k].created_at)
                      <= DateValue(diseases[i].last_detected)
    /\ SumCases(diseases) = Len(ddData)
    /\ \A i, j \in 1..Len(diseases) :
         i < j => diseases[i].total_cases >= diseases[j].total_cases

\* two diseases, the one seen second has more cases and comes first, and
\* its latest scan was fetched before its earliest
C8_Witness ==
  /\ ddPc = "done"
  /\ ddError = NULL
  /\ Len(ddData) = 3
  /\ Len(diseases) = 2
  /\ diseases[1].total_cases = 2
  /\ diseases[1].disease_name # ddData[1].disease_name
  /\ ddData[2].created_at = diseases[1].last_detected
  /\ ddData[3].created_at = diseases[1].first_detected
  /\ diseases[1].first_detected # diseases[1].last_detected

\* ==================================================== ScanHistory.tsx

\* ORDER BY created_at descending: b does not come before a
DescendingOrder_asc(a, b) == DateValue(a.created_at) <= DateValue(b.created_at)

DescendingOrder(a, b) == DateValue(a.created_at) >= DateValue(b.created_at)

\* the orders in which the database may return rows for ORDER BY created_at
\* descending; rows with equal created_at come in any order
OrderedDescending(rows) ==
  LET n == Len(rows)
      perms == {f \in [1..n -> 1..n] : \A i, j \in 1..n : f[i] = f[j] => i = j}
  IN {[i \in 1..n |-> rows[f[i]]] : f \in
        {g \in perms : \A i \in 1..n : \A j \in 1..n :
                         i < j => DescendingOrder(rows[g[i]], rows[g[j]])}}

\* .eq('user_id', user.id)
RECURSIVE EqUser(_, _)
EqUser(rows, uid) ==
  IF rows = <<>> THEN <<>>
  ELSE LET rest == EqUser(SubSeq(rows, 1, Len(rows) - 1), uid)
           last == rows[Len(rows)]
       IN IF last.user_id = uid THEN Append(rest, last) ELSE rest

\* the component is rendered with a user: on mount and whenever the user
\* prop changes the effect calls fetchScans
HistRender(u) ==
  /\ hFetches < MaxFetches
  /\ hUser' = u
  /\ hFetches' = hFetches + 1
  /\ hPending' = hPending \cup {[id |-> hFetches + 1, user |-> u]}
  /\ UNCHANGED <<authVars, scannerState, toast, runVars, dbVars, dashVars,
                 ddVars, hScans, hLoading, hLog, hLast,
                 respVars, extVars>>

\* the query of a fetchScans call resolves with data
HistFetchDone(req, data) ==
  /\ req \in hPending
  /\ hPending' = hPending \ {req}
  /\ hScans' = data
  /\ hLoading' = FALSE
  /\ hLast' = [id |-> req.id, user |-> req.user, ok |-> TRUE]
  /\ UNCHANGED <<authVars, scannerState, toast, runVars, dbVars, dashVars,
                 ddVars, hUser, hLog, hFetches,
                 respVars, extVars>>

\* the query resolves with an error: thrown, logged, loading cleared
HistFetchError(req) ==
  /\ req \in hPending
  /\ hPending' = hPending \ {req}
  /\ hLog' = Append(hLog, "Error fetching scans:")
  /\ hLoading' = FALSE
  /\ hLast' = [id |-> req.id, user |-> req.user, ok |-> FALSE]
  /\ UNCHANGED <<authVars, scannerState, toast, runVars, dbVars, dashVars,
                 ddVars, hUser, hScans, hFetches,
                 respVars, extVars>>

\* the rows written to the table while the history is open
HistRows ==
  {ReadRow(u, "blight", st) :
     u \in Users,
     st \in {[y |-> 2024, m |-> 1, d |-> 1], [y |-> 2024, m |-> 1, d |-> 2]}}

NextHistory ==
  \/ \E row \in HistRows : RlsInsert(row.user_id, row)
  \/ \E u \in Users : HistRender(u)
  \/ \E req \in hPending :
       \E data \in OrderedDescending(
                     EqUser(VisibleRows(req.user, scans), req.user)) :
         HistFetchDone(req, data)
  \/ \E req \in hPending : HistFetchError(req)

SpecHistory == Init /\ [][NextHistory]_vars

SnowyHatDiseases ==
  [exists |-> TRUE,
   columns |-> {"id", "name", "description", "symptoms", "treatments",
                "prevention_tips", "created_at", "updated_at"},
   required |-> {"name", "description", "symptoms", "treatments",
                 "prevention_tips"},
   rls |-> TRUE,
   policies |-> {"SELECT"}]

\* the diseases table of 20250221211113_add_scan_columns.sql
AddScanColumnsDiseases ==
  [exists |-> TRUE,
   columns |-> {"id", "name", "total_cases", "first_detected",
                "last_detected", "created_at"},
   required |-> {"name"},
   rls |-> FALSE,
   policies |-> {}]

\* CREATE TABLE IF NOT EXISTS: skipped when a relation of that name exists
CreateTableIfNotExists(rel, def) == IF rel.exists THEN rel ELSE def

\* supabase/migrations/20250215071113_snowy_hat.sql, the first migration:
\* creates scans and diseases
SnowyHat ==
  /\ applied = <<>>
  /\ applied' = <<"snowy_hat">>
  /\ diseasesRel' = CreateTableIfNotExists(diseasesRel, SnowyHatDiseases)
  /\ UNCHANGED <<authVars, scannerState, toast, runVars, dbVars, dashVars,
                 ddVars, histVars, respVars, diseasesRows, triggerInstalled,
                 issued, dvVars, mapVars>>

\* supabase/migrations/20250221211113_add_scan_columns.sql, the second
\* migration: its DO block alters scans, so scans exists when it runs
AddScanColumns ==
  /\ applied = <<"snowy_hat">>
  /\ applied' = Append(applied, "add_scan_columns")
  /\ diseasesRel' = CreateTableIfNotExists(diseasesRel,
                                           AddScanColumnsDiseases)
  /\ triggerInstalled' = TRUE
  /\ UNCHANGED <<authVars, scannerState, toast, runVars, dbVars, dashVars,
                 ddVars, histVars, respVars, diseasesRows, issued, dvVars,
                 mapVars>>

\* update_disease_stats() for the row NEW: the UPDATE of the CTE, then the
\* INSERT when the UPDATE returned no row. The function runs with the rights
\* of the session that inserts the scan. A statement that names a column the
\* relation does not have, breaks a NOT NULL or UNIQUE constraint or is
\* refused by row level security raises.
update_disease_stats(rel, rows, new) ==
  LET matched == {i \in 1..Len(rows) :
                    new.disease_name # NULL /\ rows[i].name = new.disease_name}
      updated == IF rel.rls /\ "UPDATE" \notin rel.policies
                   THEN {} ELSE matched
  IN IF ~ ({"total_cases", "last_detected", "name"} \subseteq rel.columns)
       THEN [raised |-> TRUE, rows |-> rows]
     ELSE IF updated # {}
       THEN [raised |-> FALSE,
             rows |-> [i \in 1..Len(rows) |->
                         IF i \in updated
                           THEN [rows[i] EXCEPT !.total_cases = @ + 1]
                           ELSE rows[i]]]
     ELSE IF \/ new.disease_name = NULL
             \/ rel.required \ {"name"} # {}
             \/ rel.rls /\ "INSERT" \notin rel.policies
             \/ matched # {}
       THEN [raised |-> TRUE, rows |-> rows]
     ELSE [raised |-> FALSE,
           rows |-> Append(rows, [name |-> new.disease_name,
                                  total_cases |-> 1])]

\* INSERT INTO scans by the session uid, with the AFTER INSERT FOR EACH ROW
\* trigger: an error raised by the trigger aborts the statement
InsertScan(uid, row) ==
  /\ applied # <<>>
  /\ Len(issued) < MaxRows
  /\ LET new == WithId(row, Len(scans) + 1)
         passes == ScansInsertPolicy(uid, row)
         out == IF triggerInstalled
                  THEN update_disease_stats(diseasesRel, diseasesRows, new)
                  ELSE [raised |-> FALSE, rows |-> diseasesRows]
         ok == passes /\ ~out.raised
     IN /\ authUid' = uid
        /\ scans' = IF ok THEN Append(scans, new) ELSE scans
        /\ diseasesRows' = IF ok THEN out.rows ELSE diseasesRows
        /\ issued' = Append(issued, [name |-> row.disease_name,
                                     trigger |-> triggerInstalled,
                                     passes |-> passes,
                                     ok |-> ok])
  /\ UNCHANGED <<authVars, scannerState, toast, runVars, lastRead, dashVars,
                 ddVars, histVars, respVars, applied, diseasesRel,
                 triggerInstalled, dvVars, mapVars>>

NextTrigger ==
  \/ SnowyHat
  \/ AddScanColumns
  \/ \E uid \in Users, u \in Users, name \in DiseaseNames \cup {NULL} :
       InsertScan(uid, ReadRow(u, name, [y |-> 2025, m |-> 2, d |-> 1]))

SpecTrigger == Init /\ [][NextTrigger]_vars

\* the scan inserts of the name n made under the trigger by a session that
\* may insert the row
InsertsOf(n) ==
  {i \in 1..Len(issued) : /\ issued[i].trigger
                          /\ issued[i].passes
                          /\ issued[i].name = n}

\* C11: after any sequence of sequential scan inserts with non-null disease
\* names, the diseases table holds exactly one row per distinct disease
\* name inserted, and the total_cases of that row is the number of scans
\* inserted with that name.
C11_DiseaseStats ==
  (\A i \in 1..Len(issued) : issued[i].name # NULL)
    => \A n \in DiseaseNames :
         LET k == Cardinality(InsertsOf(n))
             held == {j \in 1..Len(diseasesRows) : diseasesRows[j].name = n}
         IN /\ Cardinality(held) = (IF k > 0 THEN 1 ELSE 0)
            /\ \A j \in held : diseasesRows[j].total_cases = k

\* ============================================ the video arrays of a scan

\* array[index], undefined past the end of the array
At(array, i) ==
  IF i <= Len(array) THEN array[i] ELSE <<"undefined", "undefined">>

\* ScanDetails: the videos of a scan, the three arrays zipped by index
ScanDetailsVideos(scan) ==
  [i \in 1..Len(scan.video_urls) |->
     [url |-> scan.video_urls[i],
      title |-> At(scan.video_titles, i),
      thumbnail |-> At(scan.video_thumbnails, i)]]

\* array_length(a, 1): NULL for an empty array
array_length(a) == IF a = <<>> THEN NoCount ELSE Len(a)

\* a = b of SQL: NULL when an operand is NULL
SqlEq(a, b) == IF a = NoCount \/ b = NoCount THEN "null"
               ELSE IF a = b THEN "true" ELSE "false"

\* a AND b of SQL
SqlAnd(a, b) == IF a = "false" \/ b = "false" THEN "false"
                ELSE IF a = "null" \/ b = "null" THEN "null" ELSE "true"

\* CONSTRAINT video_arrays_length_check: a row passes unless the condition
\* is false
video_arrays_length_check(row) ==
  SqlAnd(SqlEq(array_length(row.video_urls), array_length(row.video_titles)),
         SqlEq(array_length(row.video_urls),
               array_length(row.video_thumbnails))) # "false"

\* C12: every scan row the Scanner inserts has video_urls, video_titles and
\* video_thumbnails of the same length, entry i of the three describes the
\* same video, item i of the search response, and ScanDetails rebuilds from
\* the row the list of videos fetched at save time, the empty list when the
\* video search failed.
C12_VideoArrays ==
  [][Len(scans') > Len(scans)
       => LET row == scans'[Len(scans')]
              n == Len(row.video_urls)
          IN /\ Len(row.video_titles) = n
             /\ Len(row.video_thumbnails) = n
             /\ video_arrays_length_check(row)
             /\ n = Len(videoResp.items)
             /\ \A i \in 1..n :
                  /\ row.video_urls[i] = <<"watch", videoResp.items[i]>>
                  /\ row.video_titles[i] = <<"title", videoResp.items[i]>>
                  /\ row.video_thumbnails[i] = <<"thumb", videoResp.items[i]>>
             /\ ScanDetailsVideos(row) = fetchedVideos
             /\ videoResp.kind # "ok" => ScanDetailsVideos(row) = <<>>]_vars

\* a saved scan with two videos, and one saved after a failed video search
C12_Witness ==
  /\ \E i \in 1..Len(scans) : Len(ScanDetailsVideos(scans[i])) = 2
  /\ \E i \in 1..Len(scans) : ScanDetailsVideos(scans[i]) = <<>>

\* ======================================= the analysis a run is built from

\* a response that has the six fields, a numeric confidence from 0 to 100
\* and a severity that is Low, Medium or High
ValidResponse(resp) ==
  /\ resp.kind = "json"
  /\ \A f \in {"disease", "confidence", "description", "treatment",
               "severity", "preventiveMeasures"} : resp[f].type # "undefined"
  /\ resp.confidence.type = "number"
  /\ resp.confidence.num >= 0
  /\ resp.confidence.num <= 100
  /\ resp.severity.type = "string"
  /\ resp.severity.str \in {<<"Low">>, <<"Medium">>, <<"High">>}

C14_CatchMarksStep ==
  [][(pc \in {"prepare", "analyze", "upload", "videos"} /\ pc' = "idle")
       => /\ \A id \in StepSet :
               IF loadingSteps[id].status = "loading"
                 THEN /\ loadingSteps'[id].status = "error"
                      /\ loadingSteps'[id].errorDetails = error'
                      /\ loadingSteps'[id].retryFn = RetryFn(runFile)
                 ELSE loadingSteps'[id] = loadingSteps[id]
          /\ \A id \in StepSet : loadingSteps'[id].status # "loading"]_vars

\* C15: when the analysis and the upload succeed and only the insert fails,
\* the result is set to the analysis, only the save step is 'error', with
\* progress 0, the prepare, analyze and upload steps are 'completed', and
\* the error state is null.
C15_SaveFailureState ==
  [][(pc = "save" /\ pc' = "idle" /\ failed' = "save")
       => /\ result' = analysis
          /\ result' # NoAnalysis
          /\ loadingSteps'["save"].status = "error"
          /\ loadingSteps'["save"].progress = 0
          /\ \A id \in {"prepare", "analyze", "upload"} :
               loadingSteps'[id].status = "completed"
          /\ error' = NULL]_vars

\* C16: a failure of the video search never fails the run: fetchVideos
\* returns the empty list for a response that is not ok, a rejected request
\* and an unreadable body, the run goes on to the save step and sends the
\* insert, and the row it saves has empty video arrays.
C16_VideoFailureTolerated ==
  [][/\ (pc = "videos" /\ pc' # "videos")
          => /\ pc' = "save"
             /\ isAnalyzing' = isAnalyzing
             /\ error' = error
             /\ failed' = failed
             /\ calls'.db = calls.db + 1
             /\ loadingSteps'["save"].status = "loading"
             /\ videoResp'.kind # "ok"
                  => fetchedVideos' = <<>> /\ videos' = <<>>
     /\ (Len(scans') > Len(scans) /\ videoResp.kind # "ok")
          => /\ scans'[Len(scans')].video_urls = <<>>
             /\ scans'[Len(scans')].video_titles = <<>>
             /\ scans'[Len(scans')].video_thumbnails = <<>>]_vars

\* the run is at the save step, the insert sent, after a video search that
\* failed
C16_Witness ==
  /\ pc = "save"
  /\ videoResp.kind \in {"not_ok", "network_error", "malformed"}
  /\ fetchedVideos = <<>>
  /\ calls.db > 0
  /\ failed = NULL

\* ====================================================== DiseaseVideos.tsx

\* the items of the videos endpoint for a query: view and like counts and
\* the day and hour of publication
DetailsItems(diseaseName, filter) ==
  <<[id |-> <<diseaseName, filter, 1>>, viewCount |-> 950, likeCount |-> 40,
     publishedAt |-> [day |-> 2, hour |-> 9]],
    [id |-> <<diseaseName, filter, 2>>, viewCount |-> 1200, likeCount |-> 7,
     publishedAt |-> [day |-> 2, hour |-> 17]]>>

\* Intl.NumberFormat('en-US', {notation: 'compact'}).format(n), n < 10000, as
\* the digits and the other characters of the text
Compact(n) ==
  IF n < 1000 THEN [digits |-> n, suffix |-> ""]
  ELSE IF (n % 1000) \div 100 = 0
    THEN [digits |-> n \div 1000, suffix |-> "K"]
    ELSE [digits |-> (n \div 1000) * 10 + (n % 1000) \div 100,
          suffix |-> ".K"]

\* parseInt(text.replace(/[^\d]/g, ''))
DigitsOf(text) == text.digits

\* formattedVideos: one video per item; toLocaleDateString() keeps the day,
\* which new Date(text).getTime() reads back
FormatVideo(item) ==
  [id |-> item.id,
   viewCount |-> Compact(item.viewCount),
   likeCount |-> Compact(item.likeCount),
   publishedAt |-> item.publishedAt.day]

\* the comparator of sortVideos: negative, zero or positive
CompareVideos(a, b, criterion) ==
  CASE criterion = "views" -> DigitsOf(b.viewCount) - DigitsOf(a.viewCount)
    [] criterion = "likes" -> DigitsOf(b.likeCount) - DigitsOf(a.likeCount)
    [] criterion = "date" -> b.publishedAt - a.publishedAt
    [] OTHER -> 0

\* Array.prototype.sort is stable: insertion after the last element that
\* does not compare greater
RECURSIVE InsertVideo(_, _, _)
InsertVideo(sorted, v, criterion) ==
  IF sorted = <<>> THEN <<v>>
  ELSE IF CompareVideos(sorted[Len(sorted)], v, criterion) <= 0
    THEN Append(sorted, v)
    ELSE Append(InsertVideo(SubSeq(sorted, 1, Len(sorted) - 1), v,
                            criterion),
                sorted[Len(sorted)])

RECURSIVE sortVideos(_, _)
sortVideos(videosToSort, criterion) ==
  IF videosToSort = <<>> THEN <<>>
  ELSE InsertVideo(sortVideos(SubSeq(videosToSort, 1,
                                     Len(videosToSort) - 1), criterion),
                   videosToSort[Len(videosToSort)], criterion)

\* the list a request for the selection sel sets when both calls succeed
SortedVideos(sel) ==
  LET items == DetailsItems(sel.diseaseName, sel.filter)
  IN sortVideos([i \in 1..Len(items) |-> FormatVideo(items[i])], sel.sortBy)

\* the effect of [diseaseName, filter, sortBy]: fetchVideos up to its first
\* await; the effect has no cleanup, an earlier request stays in flight
DvEffect(sel) ==
  /\ dvSel' = sel
  /\ IF sel.diseaseName = ""
       THEN UNCHANGED <<dvLoading, dvError, dvPending, dvFetches, dvLast>>
       ELSE /\ dvFetches < MaxSelections
            /\ dvLoading' = TRUE
            /\ dvError' = NULL
            /\ dvFetches' = dvFetches + 1
            /\ dvPending' = dvPending \cup
                 {[id |-> dvFetches + 1, sel |-> sel, stage |-> "search"]}
            /\ dvLast' = [id |-> dvFetches + 1, sel |-> sel, ok |-> FALSE]
  /\ UNCHANGED <<authVars, scannerState, toast, runVars, dbVars, dashVars,
                 ddVars, histVars, respVars, trigVars, dvVideos, mapVars>>

\* the parent renders the component with another diseaseName
DvSetDiseaseName(name) ==
  /\ name # dvSel.diseaseName
  /\ DvEffect([dvSel EXCEPT !.diseaseName = name])

\* the two selects are rendered when the component shows its list
DvControlsRendered == ~dvLoading /\ dvError = NULL /\ dvVideos # <<>>

DvSetFilter(filter) ==
  /\ DvControlsRendered
  /\ filter # dvSel.filter
  /\ DvEffect([dvSel EXCEPT !.filter = filter])

DvSetSortBy(sortBy) ==
  /\ DvControlsRendered
  /\ sortBy # dvSel.sortBy
  /\ DvEffect([dvSel EXCEPT !.sortBy = sortBy])

\* the search call resolves with an ok response: the details call starts
DvSearchDone(req) ==
  /\ req \in dvPending
  /\ req.stage = "search"
  /\ dvPending' = (dvPending \ {req}) \cup {[req EXCEPT !.stage = "details"]}
  /\ UNCHANGED <<authVars, scannerState, toast, runVars, dbVars, dashVars,
                 ddVars, histVars, respVars, trigVars, dvSel, dvVideos,
                 dvLoading, dvError, dvFetches, dvLast, mapVars>>

\* the details call resolves with an ok response: setVideos, then finally
DvDetailsDone(req) ==
  /\ req \in dvPending
  /\ req.stage = "details"
  /\ dvVideos' = SortedVideos(req.sel)
  /\ dvLoading' = FALSE
  /\ dvPending' = dvPending \ {req}
  /\ dvLast' = IF req.id = dvLast.id THEN [dvLast EXCEPT !.ok = TRUE]
               ELSE dvLast
  /\ UNCHANGED <<authVars, scannerState, toast, runVars, dbVars, dashVars,
                 ddVars, histVars, respVars, trigVars, dvSel, dvError,
                 dvFetches, mapVars>>

\* either call fails or its response is not ok: catch, then finally
DvFetchFail(req) ==
  /\ req \in dvPending
  /\ dvError' = IF req.stage = "search" THEN "Failed to fetch videos"
                ELSE "Failed to fetch video details"
  /\ dvLoading' = FALSE
  /\ dvPending' = dvPending \ {req}
  /\ UNCHANGED <<authVars, scannerState, toast, runVars, dbVars, dashVars,
                 ddVars, histVars, respVars, trigVars, dvSel, dvVideos,
                 dvFetches, dvLast, mapVars>>

NextVideos ==
  \/ \E name \in DiseaseNames : DvSetDiseaseName(name)
  \/ \E filter \in {"all", "treatment"} : DvSetFilter(filter)
  \/ \E sortBy \in {"relevance", "views", "likes", "date"} : DvSetSortBy(sortBy)
  \/ \E req \in dvPending : DvSearchDone(req)
  \/ \E req \in dvPending : DvDetailsDone(req)
  \/ \E req \in dvPending : DvFetchFail(req)

SpecVideos == Init /\ [][NextVideos]_vars

Locations == {"kisumu", "nakuru"}

\* the agrovets a nearby search with status OK returns for a location
PlacesNear(location) == <<[id |-> <<"place", location>>, rating |-> 0]>>

\* searchNearbyAgrovets(location): nothing without a map, else a
\* nearbySearch request
searchNearbyAgrovets(location) ==
  IF mapRef = NULL
    THEN UNCHANGED <<searches, searched, nSearches>>
    ELSE /\ nSearches < MaxSearches
         /\ searches' = searches \cup
              {[id |-> nSearches + 1, location |-> location]}
         /\ searched' = searched \cup {location}
         /\ nSearches' = nSearches + 1

\* the component mounts: the effect calls getCurrentPosition
MapMount ==
  /\ geoState = "unmounted"
  /\ geoState' = "pending"
  /\ UNCHANGED <<authVars, scannerState, toast, runVars, dbVars, dashVars,
                 ddVars, histVars, respVars, trigVars, dvVars, lastSearch,
                 isLoaded, mapRef, searchBoxRef, userLocation, center, agrovets,
                 searches, searched, nSearches>>

\* the success callback of getCurrentPosition
GeoSuccess(location) ==
  /\ geoState = "pending"
  /\ geoState' = "granted"
  /\ userLocation' = location
  /\ center' = location
  /\ searchNearbyAgrovets(location)
  /\ UNCHANGED <<authVars, scannerState, toast, runVars, dbVars, dashVars,
                 ddVars, histVars, respVars, trigVars, dvVars, lastSearch,
                 isLoaded, mapRef, searchBoxRef, agrovets>>

\* the error callback of getCurrentPosition
GeoDenied ==
  /\ geoState = "pending"
  /\ geoState' = "denied"
  /\ UNCHANGED <<authVars, scannerState, toast, runVars, dbVars, dashVars,
                 ddVars, histVars, respVars, trigVars, dvVars, lastSearch,
                 isLoaded, mapRef, searchBoxRef, userLocation, center, agrovets,
                 searches, searched, nSearches>>

\* useLoadScript: the script has loaded, the map and the search box render
ScriptLoaded ==
  /\ geoState # "unmounted"
  /\ ~isLoaded
  /\ isLoaded' = TRUE
  /\ UNCHANGED <<authVars, scannerState, toast, runVars, dbVars, dashVars,
                 ddVars, histVars, respVars, trigVars, dvVars, lastSearch,
                 mapRef, searchBoxRef, userLocation, center, agrovets, geoState,
                 searches, searched, nSearches>>

\* onMapLoad(map)
onMapLoad ==
  /\ isLoaded
  /\ mapRef = NULL
  /\ mapRef' = "map"
  /\ UNCHANGED <<authVars, scannerState, toast, runVars, dbVars, dashVars,
                 ddVars, histVars, respVars, trigVars, dvVars, lastSearch,
                 isLoaded, searchBoxRef, userLocation, center, agrovets, geoState,
                 searches, searched, nSearches>>

\* onSearchBoxLoad(searchBox)
onSearchBoxLoad ==
  /\ isLoaded
  /\ searchBoxRef = NULL
  /\ searchBoxRef' = "searchBox"
  /\ UNCHANGED <<authVars, scannerState, toast, runVars, dbVars, dashVars,
                 ddVars, histVars, respVars, trigVars, dvVars, lastSearch,
                 isLoaded, mapRef, userLocation, center, agrovets, geoState, searches,
                 searched, nSearches>>

\* onPlacesChanged with the places the search box holds
onPlacesChanged(places) ==
  /\ isLoaded
  /\ IF searchBoxRef = NULL \/ places = <<>>
       THEN UNCHANGED <<center, searches, searched, nSearches>>
       ELSE /\ center' = places[1]
            /\ searchNearbyAgrovets(places[1])
  /\ UNCHANGED <<authVars, scannerState, toast, runVars, dbVars, dashVars,
                 ddVars, histVars, respVars, trigVars, dvVars, lastSearch,
                 isLoaded, mapRef, searchBoxRef, userLocation, agrovets, geoState>>

\* the callback of nearbySearch
NearbySearchDone(req, status, hasResults) ==
  /\ req \in searches
  /\ searches' = searches \ {req}
  /\ lastSearch' = [status |-> status, hasResults |-> hasResults]
  /\ agrovets' = IF status = "OK" /\ hasResults
                   THEN PlacesNear(req.location)
                   ELSE agrovets
  /\ UNCHANGED <<authVars, scannerState, toast, runVars, dbVars, dashVars,
                 ddVars, histVars, respVars, trigVars, dvVars, isLoaded,
                 mapRef, searchBoxRef, userLocation, center, geoState,
                 searched, nSearches>>

NextMap ==
  \/ MapMount
  \/ \E location \in Locations : GeoSuccess(location)
  \/ GeoDenied
  \/ ScriptLoaded
  \/ onMapLoad
  \/ onSearchBoxLoad
  \/ \E places \in {<<>>} \cup {<<l>> : l \in Locations} :
       onPlacesChanged(places)
  \/ \E req \in searches, hasResults \in BOOLEAN,
          status \in {"OK", "ZERO_RESULTS", "OVER_QUERY_LIMIT"} :
       /\ status = "OK" \/ ~hasResults
       /\ NearbySearchDone(req, status, hasResults)

SpecMap == Init /\ [][NextMap]_vars

\* C18: once the user's location has been obtained and the map has loaded,
\* a nearby search for that location is issued, whichever of the two
\* happened first: when both have happened and no callback is outstanding,
\* the search for the user's location has been issued; and a search whose
\* status is not OK leaves the list of agrovets as it is.
C18_SearchAfterBoth ==
  /\ [](/\ userLocation # NULL
        /\ mapRef # NULL
        /\ searches = {}
        => userLocation \in searched)
  /\ [][\A req \in searches \ searches' :
          lastSearch'.status # "OK" => agrovets' = agrovets]_vars
====
